---- MODULE Spec2Model ----
(***************************************************************************)
(* Model of the PIC16F648A bit error rate tester (src/BERT.c).             *)
(*                                                                         *)
(* The firmware receives an external clock and data line, generates the    *)
(* expected PN sequence with a 16-cell shift register, first runs a sync   *)
(* phase and then a count phase (countber), and shows the result           *)
(* (show_ber).  main() is a two-button menu around these.                  *)
(*                                                                         *)
(* Program state keeps the names of the C globals.  The external lines     *)
(* (clk, data), the signal source behind the data line (src, inv, tx,      *)
(* flips) and the operator (measLeft) form the environment.  Variables     *)
(* starting with g are history variables used only by the properties.      *)
(***************************************************************************)
EXTENDS Integers, Naturals, Sequences, FiniteSets, TLC

VARIABLES
    pc,            \* position of the single thread of control
    ret,           \* where countber returns to: "show" (main) or "menu" (show_ber)
    eeprom,        \* data EEPROM cells 0..3
    ClockNeg, DataNeg, TBI, TotalBits, ThresError,
    RenzokuError, ErrorBits, CountBits,
    tap,           \* the 16 LFSR cells, tap[0]..tap[15]
    SYNC_LED,      \* level driven on PIN_A3
    clk, data,     \* levels of CLK_IN and DATA_IN
    swTrig, swSel, \* levels of SW_TRIG and SW_SEL at power-on
    src, pol, tx, flips,   \* signal source: kind, line polarity, PN generator, error budget
    measLeft,      \* measurements the operator still starts
    cfgLeft,       \* setting changes and saves the operator still makes
    extra,         \* clock transitions still to come that the program is not waiting for
    gMeas,         \* countber invocations so far
    gRun,          \* matching sync samples since the last mismatch
    gSyncN,        \* sync-phase samples of this measurement (capped)
    gSyncAdv,      \* sync-phase LFSR advances of this measurement (capped)
    gSyncMis,      \* sync-phase mismatches of this measurement (capped)
    gPend,         \* samples taken minus LFSR advances made, this measurement
    gLow,          \* clock seen logically low since the last sample
    gOrder,        \* FALSE once a sample was taken without gLow
    gRef,          \* free-running copy of the generator, started at lock
    gRefErr,       \* count-phase samples that differ from gRef's output
    gCntN,         \* count-phase samples of this measurement (unbounded integer)
    gMirTap, gMirRen, gMirErr,   \* tap, RenzokuError and ErrorBits of the same run with DataNeg toggled and every data level inverted
    gTBI0,         \* the length index stored in the EEPROM at power-on
    gPress,        \* setsetting() calls since power-on
    gFresh,        \* rising clock edges since the previous sample (or the start) of this measurement
    gPer,          \* period experiment: the candidate period
    gK,            \* period experiment: advances the leading generator is ahead
    gN,            \* period experiment: output pairs compared so far
    gDiff          \* period experiment: some compared pair differed

vars == << pc, ret, eeprom, ClockNeg, DataNeg, TBI, TotalBits, ThresError,
           RenzokuError, ErrorBits, CountBits, tap, SYNC_LED, clk, data,
           swTrig, swSel, src, pol, tx, flips, measLeft, cfgLeft, extra,
           gMeas, gRun, gSyncN, gSyncAdv,
           gSyncMis, gPend, gLow, gOrder, gRef, gRefErr, gCntN, gFresh, gTBI0, gPress,
           gMirTap, gMirRen, gMirErr,
           gPer, gK, gN, gDiff >>

progVars == << pc, ret, eeprom, ClockNeg, DataNeg, TBI, TotalBits, ThresError,
               RenzokuError, ErrorBits, CountBits, tap, SYNC_LED >>
envVars  == << clk, data, swTrig, swSel, src, pol, tx, flips, measLeft, cfgLeft, extra >>
mirVars  == << gMirTap, gMirRen, gMirErr >>
histVars == << gMeas, gRun, gSyncN, gSyncAdv, gSyncMis, gPend, gLow, gOrder,
               gRef, gRefErr, gCntN, gFresh, mirVars, gTBI0, gPress >>
perVars  == << gPer, gK, gN, gDiff >>

----------------------------------------------------------------------------
(* Bounds of the model *)

MaxThres == 2      \* lock thresholds 1..MaxThres are explored
MaxFlips == 1      \* bits the free source may put on the line against the expected bit
MaxMeas  == 2      \* measurements the operator starts in one power-up
MaxPhase == 5      \* phase offsets 0..MaxPhase of the PN source
MaxCfg   == 7      \* setting changes and saves in one power-up
MaxStored == 6     \* length indexes 0..MaxStored are found in the EEPROM
MaxUndef == 1      \* a read outside the length table yields a word in 0..MaxUndef
MaxMix   == 1      \* setting changes and saves in a power-up that also measures
MaxExtra == 1      \* clock transitions that come while the program is not waiting for them

\* #ROM 0x2100 = {0,0,2,10}: the lock threshold programmed by default
RomThres == 10

----------------------------------------------------------------------------
(* Bit helpers and integer widths (CCS: short = 1 bit, int = 8, long = 16) *)

Bit == {0, 1}
Xor(a, b) == IF a = b THEN 0 ELSE 1
Not1(a) == 1 - a
Int8(x) == x % 256
\* (fault variant: a counter kept in one byte)
Int16Byte(x) == x % 256
Int16(x) == x % 65536
Min(a, b) == IF a < b THEN a ELSE b

----------------------------------------------------------------------------
(* The sequence generator *)

Cells == 0..15

\* short tap[16] = {1,...,1}: the power-on contents of the register
\* (fault variant: cell 15 cleared)
TapSeedLow == [i \in Cells |-> IF i = 15 THEN 0 ELSE 1]
TapSeed == [i \in Cells |-> 1]

\* long const tbit[6]
tbit == [i \in 0..5 |->
           CASE i = 0 -> 1000 [] i = 1 -> 5000 [] i = 2 -> 10000
             [] i = 3 -> 30000 [] i = 4 -> 50000 [] OTHER -> 65535]

\* tbit[i] as the program reads it: the entry for an index of the table; for
\* any other index the read is outside the array and yields some word
TableRead(i) == IF i \in DOMAIN tbit THEN {tbit[i]} ELSE 0..MaxUndef

\* the feedback bit tap[7] ^ tap[11]
Feedback(t) == Xor(t[7], t[11])

\* CCS shift_right(tap, 2, b) on the packed bit array: bit 0 of the lowest
\* byte is tap[0]; the two bytes are rotated right through the carry, so b
\* enters at the most significant bit (tap[15]), every cell moves one index
\* down and tap[0] is shifted out.
\* (fault variant: the opposite direction, b enters at tap[0])
ShiftRightUp(t, b) == [i \in Cells |-> IF i = 0 THEN b ELSE t[i - 1]]
ShiftRight(t, b) == [i \in Cells |-> IF i = 15 THEN b ELSE t[i + 1]]

\* one LFSR advance: shift_right(tap, 2, tap[7] ^ tap[11])
Advance(t) == ShiftRight(t, Feedback(t))

\* the expected bit compared with the data line
Expected(t) == t[15]

RECURSIVE AdvanceN(_, _)
AdvanceN(t, n) == IF n = 0 THEN t ELSE AdvanceN(Advance(t), n - 1)

----------------------------------------------------------------------------
(* Line levels as the program reads them *)

\* while ((!input(CLK_IN)) ^ ClockNeg);  spins while this is 1
WaitHighSpins(c, neg) == Xor(Not1(c), neg) = 1
\* while ((input(CLK_IN)) ^ ClockNeg);   spins while this is 1
\* (fault variant: the wait for clock low left out)
WaitLowNever(c, neg) == FALSE
WaitLowSpins(c, neg) == Xor(c, neg) = 1
\* logical clock level: clock XOR ClockNeg
ClkLogical == Xor(clk, ClockNeg)
\* input(DATA_IN) ^ DataNeg
\* (fault variant: the polarity setting ignored)
SampleNoNeg(d, neg) == d
Sample(d, neg) == Xor(d, neg)

----------------------------------------------------------------------------
(* main(): start-up and menu *)

\* lines 235-252: load the settings, drive SYNC_LED low, power-on key combo
Boot ==
    /\ pc = "boot"
    /\ DataNeg'  = IF swTrig = 1 THEN Not1(eeprom[1]) ELSE eeprom[1]
    /\ ClockNeg' = IF swSel = 1 THEN Not1(eeprom[0]) ELSE eeprom[0]
    /\ TBI' = eeprom[2]
    /\ \E w \in TableRead(eeprom[2]) : TotalBits' = w
    /\ ThresError' = eeprom[3]
    /\ SYNC_LED' = 0
    /\ pc' = "menu"
    /\ UNCHANGED << ret, eeprom, RenzokuError, ErrorBits, CountBits, tap >>
    /\ UNCHANGED << envVars, histVars, perVars >>

\* case 1 of the switch: countber(); show_ber();
MeasureKey ==
    /\ pc = "menu"
    /\ measLeft > 0
    /\ measLeft' = measLeft - 1
    /\ pc' = "countber"
    /\ ret' = "show"
    /\ UNCHANGED << eeprom, ClockNeg, DataNeg, TBI, TotalBits, ThresError,
                    RenzokuError, ErrorBits, CountBits, tap, SYNC_LED >>
    /\ UNCHANGED << clk, data, swTrig, swSel, src, pol, tx, flips, cfgLeft, extra, histVars, perVars >>

\* setsetting(): TBI++, wrap at 6, TotalBits = tbit[TBI]
\* (fault variant: the wrap one step late)
NextTBILate(i) == IF Int8(i + 1) = 7 THEN 0 ELSE Int8(i + 1)
NextTBI(i) == IF Int8(i + 1) = 6 THEN 0 ELSE Int8(i + 1)

SetSetting ==
    /\ pc = "menu"
    /\ cfgLeft > 0
    /\ cfgLeft' = cfgLeft - 1
    /\ TBI' = NextTBI(TBI)
    /\ \E w \in TableRead(NextTBI(TBI)) : TotalBits' = w
    /\ gPress' = gPress + 1
    /\ UNCHANGED << pc, ret, eeprom, ClockNeg, DataNeg, ThresError,
                    RenzokuError, ErrorBits, CountBits, tap, SYNC_LED >>
    /\ UNCHANGED << clk, data, swTrig, swSel, src, pol, tx, flips, measLeft, extra, perVars >>
    /\ UNCHANGED << gMeas, gRun, gSyncN, gSyncAdv, gSyncMis, gPend, gLow, gOrder,
                    gRef, gRefErr, gCntN, gFresh, mirVars, gTBI0 >>

\* case 3 of the switch: write_eeprom(0..3, ...)
SaveSettings ==
    /\ pc = "menu"
    /\ cfgLeft > 0
    /\ cfgLeft' = cfgLeft - 1
    /\ eeprom' = [a \in 0..3 |->
                    CASE a = 0 -> ClockNeg [] a = 1 -> DataNeg
                      [] a = 2 -> TBI [] OTHER -> ThresError]
    /\ UNCHANGED << pc, ret, ClockNeg, DataNeg, TBI, TotalBits, ThresError,
                    RenzokuError, ErrorBits, CountBits, tap, SYNC_LED >>
    /\ UNCHANGED << clk, data, swTrig, swSel, src, pol, tx, flips, measLeft, extra, histVars, perVars >>

----------------------------------------------------------------------------
(* countber() *)

SyncCap == MaxThres + 12     \* the history counters of the sync phase stop here
Cap(n) == Min(n, SyncCap)

\* the test of the sync for-loop, RenzokuError < ThresError
\* (fault variant: <= for <)
SyncTestLe(r) == IF r <= ThresError THEN "sync_hi" ELSE "sync_done"
SyncTest(r) == IF r < ThresError THEN "sync_hi" ELSE "sync_done"

\* the test of the count for-loop, CountBits < TotalBits
\* (fault variant: <= for <)
CountTestLe(c) == IF c <= TotalBits THEN "cnt_hi" ELSE "cb_end"
CountTest(c) == IF c < TotalBits THEN "cnt_hi" ELSE "cb_end"

\* line 145: output_low(SYNC_LED)
\* (fault variant: the pin left as it was)
OutputKept(pin) == pin
OutputLow(pin) == 0

\* lines 139-152: clear the counters, SYNC_LED low, enter the sync loop
CountberEnter ==
    /\ pc = "countber"
    /\ RenzokuError' = 0
    /\ ErrorBits' = 0
    /\ CountBits' = 0
    /\ SYNC_LED' = OutputLow(SYNC_LED)
    /\ pc' = SyncTest(0)
    /\ gMeas' = gMeas + 1
    /\ gRun' = 0 /\ gSyncN' = 0 /\ gSyncAdv' = 0 /\ gSyncMis' = 0
    /\ gPend' = 0 /\ gLow' = TRUE /\ gOrder' = TRUE
    /\ gRefErr' = 0 /\ gCntN' = 0 /\ gFresh' = 0
    /\ UNCHANGED << ret, eeprom, ClockNeg, DataNeg, TBI, TotalBits, ThresError, tap >>
    /\ UNCHANGED << envVars, gRef, perVars >>
    /\ gMirRen' = 0 /\ gMirErr' = 0 /\ gMirTap' = gMirTap
    /\ UNCHANGED << gTBI0, gPress >>

\* line 155: leave the wait once the clock reads logically high
SyncWaitHigh ==
    /\ pc = "sync_hi"
    /\ ~WaitHighSpins(clk, ClockNeg)
    /\ pc' = "sync_cmp"
    /\ UNCHANGED << ret, eeprom, ClockNeg, DataNeg, TBI, TotalBits, ThresError,
                    RenzokuError, ErrorBits, CountBits, tap, SYNC_LED >>
    /\ UNCHANGED << envVars, histVars, perVars >>

\* lines 158-164, mismatch branch: tap[15] = ~tap[15]
\* (fault variant: the flip left out)
OverrideNone(t) == t
Override(t) == [t EXCEPT ![15] = Not1(t[15])]

\* lines 158-164: compare, on a mismatch clear the counter and flip tap[15]
SyncCompare ==
    /\ pc = "sync_cmp"
    /\ LET match == Expected(tap) = Sample(data, DataNeg) IN
         /\ RenzokuError' = IF match THEN RenzokuError ELSE 0
         /\ tap' = IF match THEN tap ELSE Override(tap)
         /\ gRun' = IF match THEN Cap(gRun + 1) ELSE 0
         /\ gSyncMis' = IF match THEN gSyncMis ELSE Cap(gSyncMis + 1)
    /\ LET match == Expected(gMirTap) = Sample(Not1(data), Not1(DataNeg)) IN
         /\ gMirRen' = IF match THEN gMirRen ELSE 0
         /\ gMirTap' = IF match THEN gMirTap ELSE Override(gMirTap)
    /\ gMirErr' = gMirErr
    /\ gSyncN' = Cap(gSyncN + 1)
    /\ gPend' = gPend + 1
    /\ gOrder' = (gOrder /\ gLow)
    /\ gLow' = FALSE
    /\ gFresh' = 0
    /\ pc' = "sync_lo"
    /\ UNCHANGED << ret, eeprom, ClockNeg, DataNeg, TBI, TotalBits, ThresError,
                    ErrorBits, CountBits, SYNC_LED >>
    /\ UNCHANGED << envVars, gMeas, gSyncAdv, gRef, gRefErr, gCntN, perVars >>
    /\ UNCHANGED << gTBI0, gPress >>

\* line 167: leave the wait once the clock reads logically low
SyncWaitLow ==
    /\ pc = "sync_lo"
    /\ ~WaitLowSpins(clk, ClockNeg)
    /\ pc' = "sync_shift"
    /\ gLow' = (ClkLogical = 0)
    /\ UNCHANGED << ret, eeprom, ClockNeg, DataNeg, TBI, TotalBits, ThresError,
                    RenzokuError, ErrorBits, CountBits, tap, SYNC_LED >>
    /\ UNCHANGED << envVars, gMeas, gRun, gSyncN, gSyncAdv, gSyncMis, gPend,
                    gOrder, gRef, gRefErr, gCntN, perVars >>
    /\ UNCHANGED gFresh
    /\ UNCHANGED mirVars
    /\ UNCHANGED << gTBI0, gPress >>

\* line 170 and the loop's RenzokuError++ and test
SyncShift ==
    /\ pc = "sync_shift"
    /\ tap' = Advance(tap)
    /\ RenzokuError' = Int8(RenzokuError + 1)
    /\ pc' = SyncTest(Int8(RenzokuError + 1))
    /\ gSyncAdv' = Cap(gSyncAdv + 1)
    /\ gPend' = gPend - 1
    /\ UNCHANGED << ret, eeprom, ClockNeg, DataNeg, TBI, TotalBits, ThresError,
                    ErrorBits, CountBits, SYNC_LED >>
    /\ UNCHANGED << envVars, gMeas, gRun, gSyncN, gSyncMis, gLow, gOrder,
                    gRef, gRefErr, gCntN, perVars >>
    /\ UNCHANGED gFresh
    /\ gMirTap' = Advance(gMirTap) /\ gMirRen' = Int8(gMirRen + 1) /\ gMirErr' = gMirErr
    /\ UNCHANGED << gTBI0, gPress >>

\* lines 173-176: output_high(SYNC_LED), enter the count loop
SyncDone ==
    /\ pc = "sync_done"
    /\ SYNC_LED' = 1
    /\ CountBits' = 0
    /\ pc' = CountTest(0)
    /\ gRef' = tap
    /\ UNCHANGED << ret, eeprom, ClockNeg, DataNeg, TBI, TotalBits, ThresError,
                    RenzokuError, ErrorBits, tap >>
    /\ UNCHANGED << envVars, gMeas, gRun, gSyncN, gSyncAdv, gSyncMis, gPend,
                    gLow, gOrder, gRefErr, gCntN, perVars >>
    /\ UNCHANGED gFresh
    /\ UNCHANGED mirVars
    /\ UNCHANGED << gTBI0, gPress >>

\* line 178
CountWaitHigh ==
    /\ pc = "cnt_hi"
    /\ ~WaitHighSpins(clk, ClockNeg)
    /\ pc' = "cnt_cmp"
    /\ UNCHANGED << ret, eeprom, ClockNeg, DataNeg, TBI, TotalBits, ThresError,
                    RenzokuError, ErrorBits, CountBits, tap, SYNC_LED >>
    /\ UNCHANGED << envVars, histVars, perVars >>

\* lines 180-185: ErrorBits++ on a mismatch, nothing on a match
\* (fault variant: every sample counted)
ErrorsAfterAny(e, match) == Int16(e + 1)
ErrorsAfter(e, match) == IF match THEN e ELSE Int16(e + 1)

\* lines 180-185: compare, count an error on a mismatch
CountCompare ==
    /\ pc = "cnt_cmp"
    /\ LET match == Expected(tap) = Sample(data, DataNeg) IN
         /\ ErrorBits' = ErrorsAfter(ErrorBits, match)
         /\ tap' = tap
    /\ gRefErr' = IF Expected(gRef) = Xor(data, DataNeg) THEN gRefErr ELSE gRefErr + 1
    /\ gRef' = Advance(gRef)
    /\ gMirErr' = ErrorsAfter(gMirErr, Expected(gMirTap) = Sample(Not1(data), Not1(DataNeg)))
    /\ UNCHANGED << gMirTap, gMirRen >>
    /\ gCntN' = gCntN + 1
    /\ gPend' = gPend + 1
    /\ gOrder' = (gOrder /\ gLow)
    /\ gLow' = FALSE
    /\ gFresh' = 0
    /\ pc' = "cnt_lo"
    /\ UNCHANGED << ret, eeprom, ClockNeg, DataNeg, TBI, TotalBits, ThresError,
                    RenzokuError, CountBits, SYNC_LED >>
    /\ UNCHANGED << envVars, gMeas, gRun, gSyncN, gSyncAdv, gSyncMis, perVars >>
    /\ UNCHANGED << gTBI0, gPress >>

\* line 187
CountWaitLow ==
    /\ pc = "cnt_lo"
    /\ ~WaitLowSpins(clk, ClockNeg)
    /\ pc' = "cnt_shift"
    /\ gLow' = (ClkLogical = 0)
    /\ UNCHANGED << ret, eeprom, ClockNeg, DataNeg, TBI, TotalBits, ThresError,
                    RenzokuError, ErrorBits, CountBits, tap, SYNC_LED >>
    /\ UNCHANGED << envVars, gMeas, gRun, gSyncN, gSyncAdv, gSyncMis, gPend,
                    gOrder, gRef, gRefErr, gCntN, perVars >>
    /\ UNCHANGED gFresh
    /\ UNCHANGED mirVars
    /\ UNCHANGED << gTBI0, gPress >>

\* line 189 and the loop's CountBits++ and test
CountShift ==
    /\ pc = "cnt_shift"
    /\ tap' = Advance(tap)
    /\ CountBits' = Int16(CountBits + 1)
    /\ pc' = CountTest(Int16(CountBits + 1))
    /\ gPend' = gPend - 1
    /\ UNCHANGED << ret, eeprom, ClockNeg, DataNeg, TBI, TotalBits, ThresError,
                    RenzokuError, ErrorBits, SYNC_LED >>
    /\ UNCHANGED << envVars, gMeas, gRun, gSyncN, gSyncAdv, gSyncMis, gLow,
                    gOrder, gRef, gRefErr, gCntN, perVars >>
    /\ UNCHANGED gFresh
    /\ gMirTap' = Advance(gMirTap) /\ UNCHANGED << gMirRen, gMirErr >>
    /\ UNCHANGED << gTBI0, gPress >>

\* line 191: countber returns to its caller
CountberReturn ==
    /\ pc = "cb_end"
    /\ pc' = ret
    /\ UNCHANGED << ret, eeprom, ClockNeg, DataNeg, TBI, TotalBits, ThresError,
                    RenzokuError, ErrorBits, CountBits, tap, SYNC_LED >>
    /\ UNCHANGED << envVars, histVars, perVars >>

----------------------------------------------------------------------------
(* show_ber() *)

\* lines 199-217: show the result, wait for a key; SW_TRIG repeats the
\* measurement, after which show_ber returns to the menu loop
ShowBer ==
    /\ pc = "show"
    /\ \E trig \in Bit :
         /\ trig = 1 => measLeft > 0
         /\ pc' = IF trig = 1 THEN "countber" ELSE "menu"
         /\ ret' = IF trig = 1 THEN "menu" ELSE ret
         /\ measLeft' = IF trig = 1 THEN measLeft - 1 ELSE measLeft
    /\ UNCHANGED << eeprom, ClockNeg, DataNeg, TBI, TotalBits, ThresError,
                    RenzokuError, ErrorBits, CountBits, tap, SYNC_LED >>
    /\ UNCHANGED << clk, data, swTrig, swSel, src, pol, tx, flips, cfgLeft, extra, histVars, perVars >>

----------------------------------------------------------------------------
(* The external clock and the signal source *)

\* The program is inside countber's two loops
Measuring == pc \in {"sync_hi", "sync_cmp", "sync_lo", "sync_shift",
                     "cnt_hi", "cnt_cmp", "cnt_lo", "cnt_shift"}

\* The clock changes level when the program is waiting for that level, and
\* `extra` more times at any other moment of a measurement.
Toggles(awaited) ==
    IF pc \in awaited THEN extra' = extra
    ELSE Measuring /\ extra > 0 /\ extra' = extra - 1

\* The clock's rising edge puts the next bit on the data line.  A "pn" source
\* sends the generator's sequence with line polarity pol; a "free" source
\* sends any bit, at most `flips` of them against the bit the tester expects;
\* a "stuck" line never changes level; an "against" source always sends the
\* complement of the bit the tester expects.
ClockRise ==
    /\ Toggles({"sync_hi", "cnt_hi"})
    /\ ClkLogical = 0
    /\ clk' = Not1(clk)
    /\ IF src = "pn"
         THEN /\ tx' = Advance(tx)
              /\ data' = Xor(Expected(Advance(tx)), pol)
              /\ flips' = flips
         ELSE IF src = "free"
         THEN /\ \E d \in Bit :
                   LET against == Xor(d, DataNeg) # Expected(tap) IN
                     /\ against => flips > 0
                     /\ flips' = IF against THEN flips - 1 ELSE flips
                     /\ data' = d
              /\ tx' = tx
         ELSE /\ data' = IF src = "stuck" THEN data
                         ELSE Xor(Not1(Expected(tap)), DataNeg)
              /\ UNCHANGED << tx, flips >>
    /\ gFresh' = gFresh + 1
    /\ UNCHANGED << swTrig, swSel, src, pol, measLeft, cfgLeft >>
    /\ UNCHANGED << progVars, gMeas, gRun, gSyncN, gSyncAdv, gSyncMis, gPend,
                    gLow, gOrder, gRef, gRefErr, gCntN, perVars >>
    /\ UNCHANGED mirVars
    /\ UNCHANGED << gTBI0, gPress >>

ClockFall ==
    /\ Toggles({"sync_lo", "cnt_lo"})
    /\ ClkLogical = 1
    /\ clk' = Not1(clk)
    /\ UNCHANGED << data, swTrig, swSel, src, pol, tx, flips, measLeft, cfgLeft >>
    /\ UNCHANGED << progVars, histVars, perVars >>

----------------------------------------------------------------------------
(* The generator run alone: tap is advanced gPer times, then its expected *)
(* bit is compared over a full period with that of a copy started at the   *)
(* seed (gRef), both advancing in step.                                    *)

Period == 2^9 - 1

\* run tap gPer advances ahead of the copy
PeriodLead ==
    /\ gK < gPer
    /\ gK' = gK + 1
    /\ tap' = Advance(tap)
    /\ UNCHANGED << pc, ret, eeprom, ClockNeg, DataNeg, TBI, TotalBits, ThresError,
                    RenzokuError, ErrorBits, CountBits, SYNC_LED >>
    /\ UNCHANGED << gPer, gN, gDiff, envVars, histVars >>

\* compare the two expected bits, then advance both generators
PeriodStep ==
    /\ gK = gPer
    /\ gN < Period
    /\ gN' = gN + 1
    /\ gDiff' = (gDiff \/ Expected(tap) # Expected(gRef))
    /\ tap' = Advance(tap)
    /\ gRef' = Advance(gRef)
    /\ UNCHANGED << pc, ret, eeprom, ClockNeg, DataNeg, TBI, TotalBits, ThresError,
                    RenzokuError, ErrorBits, CountBits, SYNC_LED >>
    /\ UNCHANGED << gPer, gK, envVars, gMeas, gRun, gSyncN, gSyncAdv, gSyncMis,
                    gPend, gLow, gOrder, gRefErr, gCntN >>
    /\ UNCHANGED gFresh
    /\ UNCHANGED mirVars
    /\ UNCHANGED << gTBI0, gPress >>

----------------------------------------------------------------------------
(* Initial states and specifications *)

\* #ROM 0x2100 = {ClockNeg, DataNeg, TBI, ThresError}
Rom(cn, dn, i, th) ==
    [a \in 0..3 |-> CASE a = 0 -> cn [] a = 1 -> dn [] a = 2 -> i [] OTHER -> th]

\* the state after reset, before main() runs
InitProgram(stored) ==
    /\ pc = "boot"
    /\ ret = "show"
    /\ eeprom \in stored
    /\ ClockNeg = 0 /\ DataNeg = 0 /\ TBI = 0 /\ TotalBits = 0 /\ ThresError = 0
    /\ RenzokuError = 0 /\ ErrorBits = 0 /\ CountBits = 0
    /\ tap = TapSeed
    /\ SYNC_LED = 0

InitHistory ==
    /\ gMeas = 0 /\ gRun = 0 /\ gSyncN = 0 /\ gSyncAdv = 0 /\ gSyncMis = 0
    /\ gPend = 0 /\ gLow = TRUE /\ gOrder = TRUE
    /\ gRef = TapSeed /\ gRefErr = 0 /\ gCntN = 0 /\ gFresh = 0
    /\ gMirTap = TapSeed /\ gMirRen = 0 /\ gMirErr = 0
    /\ gTBI0 = eeprom[2] /\ gPress = 0

InitPeriodIdle ==
    /\ gPer = 0 /\ gK = 0 /\ gN = 0 /\ gDiff = FALSE

\* a free source: any bits, at most `budget` of them against the expected bit
InitFree(budget) ==
    /\ src = "free" /\ pol = 0 /\ tx = TapSeed
    /\ flips = budget
    /\ clk \in Bit /\ data \in Bit

\* a PN source at phase offset 0..MaxPhase from the seed, either line polarity
InitPn(phases) ==
    /\ src = "pn" /\ pol \in Bit
    /\ \E k \in phases : tx = AdvanceN(TapSeed, k)
    /\ data = Xor(Expected(tx), pol)
    /\ flips = 0
    /\ clk \in Bit

\* a data line stuck at one level
InitStuck ==
    /\ src = "stuck" /\ pol = 0 /\ tx = TapSeed /\ flips = 0
    /\ clk = 0 /\ data \in Bit

\* a source that sends the complement of every expected bit
InitAgainst ==
    /\ src = "against" /\ pol = 0 /\ tx = TapSeed /\ flips = 0
    /\ clk = 0 /\ data = 0

InitKeys(held) == \E h \in held : swTrig = h[1] /\ swSel = h[2]

\* a session spent on the settings: no measurement, up to MaxCfg key presses
InitConfigure == measLeft = 0 /\ cfgLeft = MaxCfg /\ extra = 0
\* a session of n measurements with the settings as stored
InitMeasure(n) == measLeft = n /\ cfgLeft = 0 /\ extra = 0

\* Spec: the stored length is tbit[0]; the operator either makes one
\* measurement of a free source, or up to MaxMeas measurements of a source
\* that sends no bit against the expected one, or changes the settings.
Init ==
    /\ InitProgram({Rom(0, 0, 0, th) : th \in 1..MaxThres})
    /\ InitKeys(Bit \X Bit)
    /\ \/ InitFree(MaxFlips) /\ InitMeasure(1)
       \/ InitFree(0) /\ InitMeasure(MaxMeas)
       \/ InitFree(0) /\ InitConfigure
    /\ InitHistory
    /\ InitPeriodIdle

Next ==
    \/ Boot \/ MeasureKey \/ SetSetting \/ SaveSettings
    \/ CountberEnter
    \/ SyncWaitHigh \/ SyncCompare \/ SyncWaitLow \/ SyncShift \/ SyncDone
    \/ CountWaitHigh \/ CountCompare \/ CountWaitLow \/ CountShift
    \/ CountberReturn \/ ShowBer
    \/ ClockRise \/ ClockFall

Spec == Init /\ [][Next]_vars

\* SpecTable: every stored length of the table, one measurement each
InitTable ==
    /\ InitProgram({Rom(0, 0, i, 1) : i \in 0..5})
    /\ InitKeys({<< 0, 0 >>})
    /\ \/ InitFree(0) /\ InitMeasure(1)
       \/ InitFree(0) /\ InitConfigure
    /\ InitHistory
    /\ InitPeriodIdle

SpecTable == InitTable /\ [][Next]_vars

\* SpecPn: a PN source; the processor keeps executing and the clock keeps
\* toggling (weak fairness), the operator is not obliged to press anything
InitPnSource ==
    /\ InitProgram({Rom(0, 0, 0, th) : th \in (1..MaxThres) \cup {RomThres}})
    /\ InitKeys({<< 0, 0 >>, << 1, 1 >>})
    /\ InitPn(0..MaxPhase)
    /\ \/ InitMeasure(1)
       \/ InitConfigure
    /\ InitHistory
    /\ InitPeriodIdle

Running ==
    \/ Boot \/ CountberEnter
    \/ SyncWaitHigh \/ SyncCompare \/ SyncWaitLow \/ SyncShift \/ SyncDone
    \/ CountWaitHigh \/ CountCompare \/ CountWaitLow \/ CountShift
    \/ CountberReturn

SpecPn ==
    /\ InitPnSource /\ [][Next]_vars
    /\ WF_vars(Running) /\ WF_vars(ClockRise) /\ WF_vars(ClockFall)

\* SpecGen: the generator alone, from the seed, compared with itself gPer
\* advances later, for every gPer up to the period
InitGen ==
    /\ InitProgram({Rom(0, 0, 0, 1)})
    /\ InitKeys({<< 0, 0 >>})
    /\ InitFree(0) /\ clk = 0 /\ data = 0
    /\ InitMeasure(0)
    /\ InitHistory
    /\ gPer \in 1..Period
    /\ gK = 0 /\ gN = 0 /\ gDiff = FALSE

NextGen == PeriodLead \/ PeriodStep

SpecGen == InitGen /\ [][NextGen]_vars

\* SpecFree: as Spec with a source that sends no bit against the expected
\* one, but the clock is not tied to the program: up to MaxExtra of its
\* transitions come while the program is busy or waiting for the other level
InitFreeClock ==
    /\ InitProgram({Rom(0, 0, 0, th) : th \in 1..MaxThres})
    /\ InitKeys({<< 0, 0 >>})
    /\ InitFree(0)
    /\ \E e \in {0, MaxExtra} :
         /\ extra = e
         /\ measLeft = (IF e = 0 THEN 0 ELSE 1)
         /\ cfgLeft = (IF e = 0 THEN MaxCfg ELSE 0)
    /\ InitHistory
    /\ InitPeriodIdle

SpecFree == InitFreeClock /\ [][Next]_vars

\* SpecRom: any stored length index 0..MaxStored, also outside the table.
\* The operator spends the session on the settings, or makes one measurement
\* with up to MaxMix setting changes and saves before or after it.
InitRom ==
    /\ InitProgram({Rom(0, 0, i, 1) : i \in 0..MaxStored})
    /\ InitKeys({<< 0, 0 >>})
    /\ InitFree(0) /\ clk = 0 /\ data = 0
    /\ \/ InitConfigure
       \/ /\ eeprom[2] \in {0, 5} \cup (6..MaxStored)
          /\ measLeft = 1 /\ cfgLeft = MaxMix /\ extra = 0
    /\ InitHistory
    /\ InitPeriodIdle

SpecRom == InitRom /\ [][Next]_vars

\* SpecHard: one measurement of a line stuck at a level, with the
\* thresholds 1..MaxThres and the shipped one, or of a source that sends the
\* complement of every expected bit, with every length of the table
InitHard ==
    /\ \/ /\ InitProgram({Rom(0, 0, 0, th) : th \in (1..MaxThres) \cup {RomThres}})
          /\ InitStuck /\ InitMeasure(1)
       \/ /\ InitProgram({Rom(0, 0, i, 1) : i \in DOMAIN tbit})
          /\ InitAgainst /\ InitMeasure(1)
       \/ /\ InitProgram({Rom(0, 0, 0, 1)})
          /\ InitAgainst /\ InitConfigure
    /\ InitKeys({<< 0, 0 >>})
    /\ InitHistory
    /\ InitPeriodIdle

SpecHard == InitHard /\ [][Next]_vars

----------------------------------------------------------------------------
(* Properties *)

AllOnes == [i \in Cells |-> 1]
InSync  == pc \in {"sync_hi", "sync_cmp", "sync_lo", "sync_shift"}
InCount == pc \in {"cnt_hi", "cnt_cmp", "cnt_lo", "cnt_shift"}

\* C1: lock is declared only when the ThresError most recently sampled bits
\* all matched, i.e. at least ThresError matching samples follow the last
\* mismatch of the sync phase.
C1_LockAfterThresMatches ==
    pc = "sync_done" => gRun >= ThresError

\* C2: every invocation of countber begins its sync phase with all 16 cells
\* equal to 1.
C2_EveryEntrySeeded ==
    pc = "countber" => tap = AllOnes

\* C2, amended: the first invocation after power-up begins with all 16 cells
\* equal to 1; a later invocation begins with the cells as the measurement
\* before left them (the register at its lock, advanced once per counted bit).
C2_FirstEntrySeeded ==
    /\ pc = "countber" /\ gMeas = 0 => tap = AllOnes
    /\ pc = "countber" /\ gMeas > 0 => tap = gRef

C2_Witness ==
    pc = "countber" /\ gMeas = 1 /\ tap # AllOnes /\ ret = "menu"

\* C3: the final ErrorBits is the number of count-phase samples that differ
\* from the expected bit of the free-running generator (sync-phase mismatches
\* are not counted, a count-phase mismatch leaves the register alone), with
\* CountBits = TotalBits.
C3_ErrorBitsExact ==
    /\ pc \in {"cnt_hi", "cnt_cmp"} => tap = gRef
    /\ InCount => ErrorBits = gRefErr
    /\ pc = "cb_end" => ErrorBits = gRefErr /\ CountBits = TotalBits

C3_Witness ==
    pc = "cb_end" /\ ErrorBits = 1 /\ gSyncMis = 1 /\ CountBits = tbit[0]

\* C4: after lock the count phase samples exactly TotalBits bits, for every
\* length of the table, and the 16-bit CountBits never wraps: it equals the
\* true number of completed iterations throughout.
C4_CountsExactlyTotalBits ==
    /\ TotalBits \in {0} \cup {tbit[i] : i \in 0..5}
    /\ pc \in {"cnt_hi", "cnt_cmp"} => CountBits = gCntN /\ gCntN < TotalBits
    /\ pc \in {"cnt_lo", "cnt_shift"} => CountBits = gCntN - 1 /\ gCntN <= TotalBits
    /\ pc = "cb_end" => CountBits = TotalBits /\ gCntN = TotalBits

C4_Witness ==
    pc = "cb_end" /\ TotalBits = 65535 /\ CountBits = 65535 /\ gCntN = 65535

\* C5: with the clock toggling and an error-free PN stream at any phase
\* offset, data polarity matching DataNeg, the sync phase eventually declares
\* lock.
C5_PnStreamLocks ==
    (pc = "countber" /\ pol = DataNeg) ~> (pc = "sync_done")

C5_Witness ==
    pc = "sync_done" /\ pol = DataNeg /\ gSyncMis >= 2 /\ ThresError = RomThres

\* C6: with the PN stream's polarity inverted relative to DataNeg the sync
\* phase still eventually declares lock.
C6_InvertedStreamLocks ==
    (pc = "countber" /\ pol # DataNeg) ~> (pc = "sync_done")

\* C7: if every bit sampled in the sync phase differs from the expected bit,
\* lock is never declared.
C7_NoLockWithoutMatch ==
    pc \in {"sync_done"} \cup {"cnt_hi", "cnt_cmp", "cnt_lo", "cnt_shift", "cb_end"}
        => gSyncMis < gSyncN

\* C8: when every sampled bit equals the expected bit, lock is declared after
\* exactly ThresError samples and exactly ThresError advances.
C8_CleanLockTakesThres ==
    /\ InSync /\ gSyncMis = 0 => gSyncN <= ThresError /\ gSyncAdv < ThresError
    /\ pc = "sync_done" /\ gSyncMis = 0 =>
          gSyncN = ThresError /\ gSyncAdv = ThresError

C8_Witness ==
    pc = "sync_done" /\ gSyncMis = 0 /\ gMeas = 1 /\ gSyncN = MaxThres

\* C9: from the all-ones seed the expected-bit sequence has period 2^9 - 1:
\* over a full period it equals itself gPer steps later exactly when gPer is
\* 511, and differs somewhere for every shorter gPer.
C9_PeriodIs511 ==
    gN = Period => (gDiff <=> gPer # Period)

C9_Witness ==
    gN = Period /\ gPer = Period /\ ~gDiff

\* C10: every iteration waits for clock high, samples once, waits for clock
\* low and then advances once: samples and advances agree at every iteration
\* boundary, a sample is taken with the clock logically high, an advance with
\* it logically low, and no two samples without the clock seen low between.
C10_OneSamplePerClock ==
    /\ gOrder
    /\ gPend \in {0, 1}
    /\ pc \in {"sync_hi", "sync_done", "cnt_hi", "cb_end"} => gPend = 0
    /\ pc \in {"sync_lo", "sync_shift", "cnt_lo", "cnt_shift"} => gPend = 1
    /\ pc \in {"sync_cmp", "cnt_cmp"} => gPend = 0 /\ ClkLogical = 1
    /\ pc \in {"sync_shift", "cnt_shift"} => ClkLogical = 0 /\ gLow

C10_Witness ==
    pc = "cnt_shift" /\ ClockNeg = 1 /\ gCntN = 3 /\ gSyncN = 2

\* C11: with the clock running on its own, every logical rising edge since
\* sampling began is sampled exactly once: each sample, the first of a
\* measurement included, is taken at a rising edge of its own (not while the
\* clock is already high), and no rising edge passes without a sample.
C11_EveryEdgeSampledOnce ==
    pc \in {"sync_cmp", "cnt_cmp"} => gFresh = 1

\* C12: SYNC_LED is low from the start of every countber invocation through
\* the whole sync phase, and it is driven high only by the step that leaves
\* the sync loop, at which moment RenzokuError has reached ThresError.
C12_LedFollowsLock ==
    /\ [](pc \in {"sync_hi", "sync_cmp", "sync_lo", "sync_shift", "sync_done"}
             => SYNC_LED = 0)
    /\ [](pc = "sync_done" => RenzokuError = ThresError)
    /\ [][SYNC_LED = 0 /\ SYNC_LED' = 1
             => pc = "sync_done" /\ RenzokuError = ThresError]_vars

\* a second measurement is in its sync phase: the LED, high since the first
\* lock, is low again
C12_Witness ==
    /\ gMeas = 2
    /\ pc = "sync_cmp"
    /\ SYNC_LED = 0

\* C13: data polarity is a relabeling: the run with DataNeg toggled and every
\* data-line level inverted goes through the same LFSR states and the same
\* RenzokuError and ErrorBits values, so it locks at the same sample and ends
\* with the same ErrorBits and CountBits.
C13_PolarityRelabels ==
    /\ gMirTap = tap
    /\ gMirRen = RenzokuError
    /\ gMirErr = ErrorBits

\* a measurement with DataNeg set that saw a mismatch in the sync phase and
\* counted one error has ended
C13_Witness ==
    /\ pc = "cb_end"
    /\ DataNeg = 1
    /\ gSyncMis = 1
    /\ ErrorBits = 1
    /\ gMirErr = 1

\* C14: a stored length index outside 0..5 is rejected when the settings are
\* loaded: the program never goes on with a TBI that is not an index of the
\* length table.
C14_BadIndexRejected ==
    pc # "boot" => TBI \in DOMAIN tbit

\* C15: show_ber never evaluates the ratio ErrorBits / CountBits with
\* CountBits = 0: whenever the program is at the division, CountBits > 0.
C15_NoDivisionByZero ==
    pc = "show" => CountBits > 0

\* C16: given a stored length index in 0..5, after any sequence of
\* measurements, length changes and saves TBI is in 0..5 and TotalBits is
\* tbit[TBI]; every setsetting() takes TBI to (TBI + 1) mod 6, so TBI is the
\* stored index plus the number of calls, mod 6, and six calls restore it.
C16_IndexStaysInTable ==
    gTBI0 \in DOMAIN tbit /\ pc # "boot" =>
        /\ TBI \in DOMAIN tbit
        /\ TotalBits = tbit[TBI]
        /\ TBI = (gTBI0 + gPress) % 6

\* six length changes have been made and the stored length is selected again
C16_Witness ==
    /\ pc = "menu"
    /\ gTBI0 \in DOMAIN tbit
    /\ gPress = 6
    /\ TBI = gTBI0

\* an advance step that moves cell i to i + 1 and fills cell 0
AdvanceUpStep ==
    pc \in {"sync_shift", "cnt_shift"} =>
        /\ \A i \in 0..14 : tap'[i + 1] = tap[i]
        /\ tap'[0] = Xor(tap[7], tap[11])

\* an advance step that moves cell i + 1 to i and fills cell 15
AdvanceDownStep ==
    pc \in {"sync_shift", "cnt_shift"} =>
        /\ \A i \in 0..14 : tap'[i] = tap[i + 1]
        /\ tap'[15] = Xor(tap[7], tap[11])

\* a count-phase compare counts an error exactly when cell 15 differs from
\* the sample
CompareCell15Step ==
    pc = "cnt_cmp" =>
        ((ErrorBits' # ErrorBits) <=> (tap[15] # Xor(data, DataNeg)))

\* C17 (as stated): every LFSR advance moves cell i to cell i + 1 for i in
\* 0..14, drops the old cell 15 and puts the feedback bit, computed from the
\* current cells 7 and 11, into cell 0.
C17_AdvanceShiftsUp == [][AdvanceUpStep]_vars

\* C17 (amended): every LFSR advance moves cell i + 1 to cell i for i in
\* 0..14, drops the old cell 0 and puts the feedback bit, computed from the
\* current cells 7 and 11, into cell 15; the register has exactly the 16
\* cells 0..15 before and after; the bit compared with the sample is cell 15,
\* the cell filled last.
C17_AdvanceShiftsDown ==
    /\ [](DOMAIN tap = 0..15)
    /\ [][AdvanceDownStep]_vars
    /\ [][CompareCell15Step]_vars

\* the first advance from the seed has been made: the feedback bit 0 is in
\* cell 15 and cell 0 still holds a 1
C17_Witness ==
    /\ pc = "sync_hi"
    /\ gMeas = 1
    /\ gSyncAdv = 1
    /\ gSyncMis = 0
    /\ tap[15] = 0
    /\ tap[0] = 1

\* C18 (as stated): in the sync phase the flip of tap[15] on a mismatch has
\* no effect on what follows: the LFSR state after the advance that ends the
\* iteration is the same with the flip and without it.
C18_OverrideHasNoEffect ==
    pc = "sync_shift" /\ gRun = 0 =>
        Advance(tap) = Advance(Override(tap))

\* C18 (amended): in the sync phase the flip of tap[15] on a mismatch makes
\* cell 15 the sampled bit, and the advance keeps it: the LFSR state after the
\* advance differs from the state without the flip in cell 14 and nowhere
\* else, and the expected bit five advances later is inverted by it.
C18_OverrideLoadsSample ==
    /\ pc \in {"sync_lo", "sync_shift"} => tap[15] = Sample(data, DataNeg)
    /\ pc = "sync_shift" /\ gRun = 0 =>
          LET with    == Advance(tap)
              without == Advance(Override(tap))
          IN  /\ with[14] # without[14]
              /\ \A i \in Cells \ {14} : with[i] = without[i]
              /\ Expected(AdvanceN(tap, 5)) # Expected(AdvanceN(Override(tap), 5))

\* a sync sample has mismatched and the program is about to advance the LFSR
C18_Witness ==
    /\ pc = "sync_shift"
    /\ gRun = 0
    /\ gSyncMis = 1
    /\ RenzokuError = 0

\* C19: the LFSR cells are never all zero, in any reachable state of a
\* measurement and whatever the data line does (a stuck line included).
C19_NeverAllZero ==
    tap # [i \in Cells |-> 0]

\* C20: at the end of every count-phase iteration and at the end of the
\* measurement ErrorBits <= CountBits <= TotalBits; both counters are 0 when
\* lock is declared; neither counter wraps: CountBits is the number of samples
\* counted and ErrorBits the number of them that mismatched, for every length
\* of the table and any input stream.
C20_CountersOrdered ==
    /\ pc \in {"cnt_hi", "cb_end"} =>
          /\ ErrorBits <= CountBits
          /\ CountBits <= TotalBits
          /\ CountBits = gCntN
          /\ ErrorBits = gRefErr
    /\ pc \in {"cnt_cmp", "cnt_lo", "cnt_shift"} =>
          /\ ErrorBits <= CountBits + 1
          /\ CountBits < TotalBits
    /\ pc = "sync_done" => ErrorBits = 0 /\ CountBits = 0

\* the longest measurement of the table has ended with every counted bit in
\* error
C20_Witness ==
    /\ pc = "cb_end"
    /\ TotalBits = tbit[5]
    /\ CountBits = 65535
    /\ ErrorBits = 65535

====
